---------------------------- MODULE Spec2Model ----------------------------
(***************************************************************************)
(* A model of the two entry points of the United award scraper:           *)
(*   src/scrape_united.py  (batch mode: generate_routes,                  *)
(*                          scrape_united_awards, main)                   *)
(*   src/auto_scraper.py   (interactive mode: extract_flight_data,        *)
(*                          save_to_csv, wait_for_search_results, main)   *)
(*                                                                         *)
(* The rendered page is the answers the Selenium driver gives to the      *)
(* queries the code makes: whether the block XPath matches, how many      *)
(* elements each of the three flight selectors matches, the texts of the  *)
(* price-labelled elements and whether the "no flights" XPath matches.    *)
(* A driver call may raise; `fault` names the call that raises.           *)
(* The file system is taken to be reliable; scraped_at is abstract.       *)
(***************************************************************************)
EXTENDS Integers, Sequences, FiniteSets, TLC

VARIABLES
    mode,            \* which script runs: "batch" | "interactive"
    test_mode,       \* scrape_united.main(test_mode)
    manual_login,    \* scrape_united.main(manual_login)
    pc,              \* position of the control flow in main
    driver,          \* the browser session: "none" | "open" | "quit"
    quits,           \* number of driver.quit() calls of this run
    exitCause,       \* how the run ended
    exitFrom,        \* the position the run was at when it ended
    location,        \* driver.current_url (driven by the human)
    last_url,        \* wait_for_search_results' last_url
    elapsed,         \* seconds polled in wait_for_search_results
    disk,            \* the flushed content of united_awards.csv
    buf,             \* lines written to the open csvfile, not yet flushed
    current_search,  \* scrape_united.main's current_search
    page,            \* the page the current query is inspecting
    fault,           \* the driver call that raises in the current query
    flight_data,     \* the last value returned by the extraction
    results,         \* history: results handed to the store since it was
                     \* created or last truncated
    createdBy,       \* history: what created the store
    unsaved,         \* history: attempts since then that ended without one
    lastOutcome,     \* history: how the last attempt of this run ended
    stale,           \* history: location unchanged since the last extraction
    carried          \* history: lines this process found in the store and kept

vars == <<mode, test_mode, manual_login, pc, driver, quits, exitCause,
          exitFrom, location, last_url, elapsed, disk, buf, current_search,
          page, fault, flight_data, results, createdBy, unsaved,
          lastOutcome, stale, carried>>

---------------------------------------------------------------------------
(* Bounds of the model *)

MaxCards == 1       \* elements a flight selector matches: 0..MaxCards
MaxMiles == 2       \* price-labelled elements on a page: 0..MaxMiles
FullDays == 2       \* dates of a full batch run (range(365) in the code)
PollTimeout == 1    \* polls before the timeout (timeout=300 in the code)
MaxCarry == 2       \* a new process starts only on a store this short
MaxLines == 3       \* interactive mode detects results on a store shorter
MaxUnsaved == 1     \* attempts without a result explored

---------------------------------------------------------------------------
(* Values *)

\* Python values are tagged, so that a number and a string can be compared
Num(n) == [int |-> n]
Str(s) == [str |-> s]
None == [none |-> TRUE]
NA == Str("N/A")
BLOCKED == Str("BLOCKED")
ERROR == Str("ERROR")
UNKNOWN == Str("UNKNOWN")
Now == Str("now")

\* str.isdigit on the characters the texts below use
Digits == {"0", "1", "2", "5", "8"}

DigitValue(c) ==
    CASE c = "0" -> 0 [] c = "1" -> 1 [] c = "2" -> 2 [] c = "5" -> 5
      [] c = "8" -> 8

\* texts of price-labelled elements, as character sequences
Text_12500_miles ==
    <<"1", "2", ",", "5", "0", "0", " ", "m", "i", "l", "e", "s">>
Text_8000 == <<" ", "8", ",", "0", "0", "0">>
Text_award_na == <<"a", "w", "a", "r", "d", " ", "n", "/", "a">>
Text_0_miles == <<"0", " ", "m", "i", "l", "e", "s", " ">>

Texts == {Text_12500_miles, Text_8000, Text_award_na, Text_0_miles}

RECURSIVE SeqsUpTo(_, _)
SeqsUpTo(S, n) ==
    IF n = 0 THEN {<<>>}
    ELSE LET shorter == SeqsUpTo(S, n - 1)
         IN shorter \cup {Append(s, x) : s \in shorter, x \in S}

Pages ==
    [block : BOOLEAN,
     tier1 : 0..MaxCards, tier2 : 0..MaxCards, tier3 : 0..MaxCards,
     miles : SeqsUpTo(Texts, MaxMiles),
     noflights : BOOLEAN]

\* the driver call of one extraction that raises ("none": no call raises)
Faults == {"none", "get", "block", "cards", "miles", "text", "noflights"}

---------------------------------------------------------------------------
(* Extraction: scrape_united_awards and extract_flight_data *)

RECURSIVE lstrip(_)
lstrip(text) ==
    IF text # <<>> /\ Head(text) = " " THEN lstrip(Tail(text)) ELSE text

RECURSIVE rstrip(_)
rstrip(text) ==
    IF text # <<>> /\ text[Len(text)] = " "
    THEN rstrip(SubSeq(text, 1, Len(text) - 1)) ELSE text

strip(text) == rstrip(lstrip(text))

IsDigit(c) == c \in Digits

\* ''.join(filter(lambda x: x.isdigit(), text))
numbers(text) == SelectSeq(strip(text), IsDigit)

RECURSIVE int(_)
int(ds) ==
    IF ds = <<>> THEN 0
    ELSE 10 * int(SubSeq(ds, 1, Len(ds) - 1)) + DigitValue(ds[Len(ds)])

RECURSIVE miles_prices(_)
miles_prices(elems) ==
    IF elems = <<>> THEN <<>>
    ELSE LET ns == numbers(Head(elems))
         IN (IF ns # <<>> THEN <<int(ns)>> ELSE <<>>)
                \o miles_prices(Tail(elems))

RECURSIVE min(_)
min(xs) ==
    IF Len(xs) = 1 THEN xs[1]
    ELSE LET m == min(Tail(xs)) IN IF xs[1] <= m THEN xs[1] ELSE m

\* the selector cascade: the first tier that matches anything
flight_elements(p) ==
    IF p.tier1 # 0 THEN p.tier1 ELSE IF p.tier2 # 0 THEN p.tier2 ELSE p.tier3

\* Python truthiness of min_miles: None and 0 are false
Truthy(x) == x # None /\ x # Num(0)

\* the no-availability override
Override_missing(p, found) == FALSE
Override(p, found) == p.noflights /\ found = 0

\* flights_found and min_miles when the inspection of a non-blocked page
\* stops at the call that raises (f = "none": it runs to its end)
Inspect(p, f) ==
    LET found == flight_elements(p)
        prices == miles_prices(p.miles)
        lowest == IF prices # <<>> THEN Num(min(prices)) ELSE None
    IN  IF f = "cards" THEN [flights_found |-> Num(0), min_miles |-> None]
        ELSE IF f = "miles" \/ (f = "text" /\ p.miles # <<>>)
        THEN [flights_found |-> Num(found), min_miles |-> None]
        ELSE IF f = "noflights"
        THEN [flights_found |-> Num(found), min_miles |-> lowest]
        ELSE IF Override(p, found)
        THEN [flights_found |-> Num(0), min_miles |-> None]
        ELSE [flights_found |-> Num(found), min_miles |-> lowest]

Record(o, d, dt, ff, mm) ==
    [origin |-> o, destination |-> d, date |-> dt,
     flights_found |-> ff, min_miles |-> mm, scraped_at |-> Now]

\* date.strftime('%Y-%m-%d') of the day `date` days after the start date
strftime(date) == [ymd |-> date]

\* the block check, made before anything else is looked at
error_messages_after_cards(p) == p.block /\ flight_elements(p) = 0
error_messages(p) == p.block

\* the calls of scrape_united_awards outside its inner try
OuterFaults_get_only == {"get"}
OuterFaults == {"get", "block"}

scrape_united_awards(origin, destination, date, p, f) ==
    LET date_str == strftime(date)
    IN  IF f \in OuterFaults
        THEN Record(origin, destination, date_str, ERROR, ERROR)
        ELSE IF error_messages(p)
        THEN Record(origin, destination, date_str, BLOCKED, BLOCKED)
        ELSE LET r == Inspect(p, f)
             IN Record(origin, destination, date_str, r.flights_found,
                       IF Truthy(r.min_miles) THEN r.min_miles ELSE NA)

\* a URL: whether it holds 'choose-flights' or 'fsr', and its f=, t=, d=
\* parameters ("absent": no such parameter, "malformed": the regex fails)
Absent == [absent |-> TRUE]
Malformed == [malformed |-> TRUE]
Home == [marker |-> FALSE, f |-> Absent, t |-> Absent, d |-> Absent]
Account == [marker |-> FALSE, f |-> Absent, t |-> Malformed, d |-> Absent]
ResultsUrl ==
    [marker |-> TRUE, f |-> Str("ATL"), t |-> Str("LAX"), d |-> [ymd |-> 0]]
Urls == {Home, Account, ResultsUrl}

\* re.search on the URL when the parameter's key is in it
UrlParam(v) ==
    IF v = Absent THEN None ELSE IF v = Malformed THEN UNKNOWN ELSE v

Raises(p, f) ==
    \/ f \in {"get", "block"}
    \/ ~p.block /\ f \in {"cards", "miles", "noflights"}
    \/ ~p.block /\ f = "text" /\ p.miles # <<>>

extract_flight_data(current_url, p, f) ==
    LET origin == UrlParam(current_url.f)
        destination == UrlParam(current_url.t)
        date == UrlParam(current_url.d)
    IN  IF Raises(p, f) THEN None
        ELSE IF error_messages(p)
        THEN Record(origin, destination, date, BLOCKED, BLOCKED)
        ELSE LET r == Inspect(p, "none")
             IN Record(origin, destination, date, r.flights_found,
                       IF Truthy(r.min_miles) THEN r.min_miles ELSE NA)

---------------------------------------------------------------------------
(* The extraction applied to every page and every raising call *)

InitExtract ==
    /\ page \in Pages
    /\ fault \in Faults
    /\ pc = "input"
    /\ mode = "none"
    /\ flight_data = None
    /\ test_mode = FALSE /\ manual_login = FALSE
    /\ driver = "open" /\ quits = 0
    /\ exitCause = "none" /\ exitFrom = "none"
    /\ location = ResultsUrl /\ last_url = ResultsUrl /\ elapsed = 0
    /\ disk = [exists |-> FALSE, lines |-> <<>>] /\ buf = <<>>
    /\ current_search = 0
    /\ results = <<>> /\ createdBy = "none" /\ unsaved = 0
    /\ lastOutcome = "none" /\ stale = FALSE /\ carried = 0

ApplyBatch ==
    /\ pc = "input"
    /\ flight_data' = scrape_united_awards(Str("ATL"), Str("LAX"), 0,
                                           page, fault)
    /\ mode' = "batch"
    /\ pc' = "output"
    /\ UNCHANGED <<test_mode, manual_login, driver, quits, exitCause,
                   exitFrom, location, last_url, elapsed, disk, buf,
                   current_search, page, fault, results, createdBy,
                   unsaved, lastOutcome, stale,
                   carried>>

ApplyInteractive ==
    /\ pc = "input"
    /\ flight_data' = extract_flight_data(location, page, fault)
    /\ mode' = "interactive"
    /\ pc' = "output"
    /\ UNCHANGED <<test_mode, manual_login, driver, quits, exitCause,
                   exitFrom, location, last_url, elapsed, disk, buf,
                   current_search, page, fault, results, createdBy,
                   unsaved, lastOutcome, stale,
                   carried>>

NextExtract == ApplyBatch \/ ApplyInteractive

SpecExtract == InitExtract /\ [][NextExtract]_vars

\* the integers parsed from the price-labelled elements of the page
Parsed == miles_prices(page.miles)
NoCards == page.tier1 = 0 /\ page.tier2 = 0 /\ page.tier3 = 0

\* C6: in both extraction paths, when the block phrase is on the page and
\* the calls up to the block check did not raise, flights_found and
\* min_miles are both BLOCKED, whatever else the page holds.
C6_BlockDominates ==
    (pc = "output" /\ page.block /\ fault \notin {"get", "block"})
        => /\ flight_data # None
           /\ flight_data.flights_found = BLOCKED
           /\ flight_data.min_miles = BLOCKED

C6_Witness ==
    /\ pc = "output" /\ mode = "interactive" /\ fault = "none"
    /\ page.block /\ page.tier1 > 0 /\ page.noflights
    /\ Len(Parsed) > 0
    /\ flight_data.flights_found = BLOCKED

\* C7: on a non-blocked page where the override does not apply, min_miles
\* is the minimum of the parsed integers when there is one, and N/A only
\* when none was parsed.
C7_MinOfParsed ==
    (/\ pc = "output" /\ fault = "none" /\ ~page.block
     /\ ~(page.noflights /\ NoCards))
        => /\ flight_data # None
           /\ Parsed # <<>> =>
                \E i \in 1..Len(Parsed) :
                    /\ flight_data.min_miles = Num(Parsed[i])
                    /\ \A j \in 1..Len(Parsed) : Parsed[i] <= Parsed[j]
           /\ Parsed = <<>> <=> flight_data.min_miles = NA

\* C8: on a non-blocked page with no result candidate in any tier and the
\* no-availability phrase, when no call raised, flights_found is 0 and
\* min_miles is N/A whatever was parsed from price-labelled elements.
C8_NoAvailabilityOverride ==
    (/\ pc = "output" /\ fault = "none" /\ ~page.block
     /\ NoCards /\ page.noflights)
        => /\ flight_data # None
           /\ flight_data.flights_found = Num(0)
           /\ flight_data.min_miles = NA

C8_Witness ==
    /\ pc = "output" /\ mode = "batch" /\ fault = "none" /\ ~page.block
    /\ NoCards /\ page.noflights
    /\ \E i \in 1..Len(Parsed) : Parsed[i] = 8000
    /\ flight_data.min_miles = NA

---------------------------------------------------------------------------
(* Route Generator: scrape_united.generate_routes and main's query order *)

\* the head of the AIRPORTS list
AIRPORTS == <<Str("ATL"), Str("LAX")>>

IsRoute(r) == r[1] # r[2]

\* the inner loop of generate_routes for the origin at index i
RoutesFrom(i) ==
    SelectSeq([j \in 1..Len(AIRPORTS) |-> <<AIRPORTS[i], AIRPORTS[j]>>],
              IsRoute)

RECURSIVE RoutesUpTo(_)
RoutesUpTo(i) ==
    IF i = 0 THEN <<>> ELSE RoutesUpTo(i - 1) \o RoutesFrom(i)

generate_routes == RoutesUpTo(Len(AIRPORTS))

\* routes[:1] in test mode
routes(tm) == IF tm THEN SubSeq(generate_routes, 1, 1) ELSE generate_routes

\* start_date + timedelta(days=i) for i in range(2) or range(365)
dates(tm) == [i \in 1..(IF tm THEN 2 ELSE FullDays) |-> i - 1]

total_searches(tm) == Len(routes(tm)) * Len(dates(tm))

\* the query of the k-th iteration of the nested loops: routes outside,
\* dates inside
Query(tm, k) ==
    LET D == Len(dates(tm))
    IN [route |-> routes(tm)[((k - 1) \div D) + 1],
        date |-> dates(tm)[((k - 1) % D) + 1]]

---------------------------------------------------------------------------
(* Record Sink *)

fieldnames ==
    <<"origin", "destination", "date", "flights_found", "min_miles",
      "scraped_at">>

\* csv.DictWriter.writeheader and writerow: the values in column order
HeaderLine == [header |-> fieldnames]
RowLine(fd) == [row |-> [i \in 1..Len(fieldnames) |-> fd[fieldnames[i]]]]

NoFile == [exists |-> FALSE, lines |-> <<>>]

\* save_to_csv's probe of the file
write_header_always(d) == TRUE
write_header(d) == ~d.exists

save_to_csv(d, fd) ==
    [exists |-> TRUE,
     lines |-> d.lines
                 \o (IF write_header(d) THEN <<HeaderLine>> ELSE <<>>)
                 \o <<RowLine(fd)>>]

\* `if flight_data:` in both mains
ShouldSave_unless_blocked(fd) == fd # None /\ fd.flights_found # BLOCKED
ShouldSave(fd) == fd # None

---------------------------------------------------------------------------
(* Interactive polling: wait_for_search_results and main's loop *)

\* one pass of the polling loop
WaitStep(current_url, el) ==
    IF ~(el < PollTimeout) THEN "False"
    ELSE IF current_url.marker THEN "True"
    ELSE "sleep"

\* where main goes when wait_for_search_results returns False
OnTimeout_break == "finally"
OnTimeout == "WAITING_FOR_SEARCH"

\* pages the site serves during a run
SitePages ==
    {[block |-> TRUE, tier1 |-> 1, tier2 |-> 0, tier3 |-> 1,
      miles |-> <<Text_8000>>, noflights |-> FALSE],
     [block |-> FALSE, tier1 |-> 0, tier2 |-> 1, tier3 |-> 1,
      miles |-> <<Text_8000>>, noflights |-> FALSE],
     [block |-> FALSE, tier1 |-> 0, tier2 |-> 0, tier3 |-> 0,
      miles |-> <<Text_8000>>, noflights |-> TRUE]}

NoPage == [none |-> TRUE]

---------------------------------------------------------------------------
(* The runs of the two scripts *)

Init ==
    /\ mode = "none" /\ test_mode = FALSE /\ manual_login = FALSE
    /\ pc = "idle"
    /\ driver = "none" /\ quits = 0
    /\ exitCause = "none" /\ exitFrom = "none"
    /\ location = Home /\ last_url = Home /\ elapsed = 0
    /\ disk = NoFile /\ buf = <<>>
    /\ current_search = 0
    /\ page = NoPage /\ fault = "none" /\ flight_data = None
    /\ results = <<>> /\ createdBy = "none" /\ unsaved = 0
    /\ lastOutcome = "none" /\ stale = FALSE /\ carried = 0

\* a process starts: python scrape_united.py [--test] [--no-login], or
\* python auto_scraper.py
StartRun ==
    /\ pc \in {"idle", "exited"}
    /\ Len(disk.lines) <= MaxCarry
    /\ \E m \in {"batch", "interactive"}, tm \in BOOLEAN, ml \in BOOLEAN :
        /\ m = "interactive" => (~tm /\ ml)
        /\ mode' = m /\ test_mode' = tm /\ manual_login' = ml
    /\ pc' = "setup"
    /\ driver' = "none" /\ quits' = 0
    /\ exitCause' = "none" /\ exitFrom' = "none"
    /\ location' = Home /\ last_url' = Home /\ elapsed' = 0
    /\ buf' = <<>> /\ current_search' = 0
    /\ page' = NoPage /\ fault' = "none" /\ flight_data' = None
    /\ stale' = FALSE /\ lastOutcome' = "none"
    /\ carried' = Len(disk.lines)
    /\ UNCHANGED <<disk, results, createdBy, unsaved>>

\* setup_driver() returns the session
SetupDriver ==
    /\ pc = "setup"
    /\ driver' = "open"
    /\ pc' = IF mode = "interactive" THEN "home_get"
             ELSE IF manual_login THEN "login_get" ELSE "open_file"
    /\ UNCHANGED <<mode, test_mode, manual_login, quits, exitCause,
                   exitFrom, location, last_url, elapsed, disk, buf,
                   current_search, page, fault, flight_data, results,
                   createdBy, unsaved, lastOutcome, stale,
                   carried>>

\* the run ends at position pc for cause c; viaFinally tells whether control
\* passes through the finally clause; main's locals are gone
Leave(c, viaFinally) ==
    /\ exitCause' = c
    /\ exitFrom' = pc
    /\ pc' = IF viaFinally THEN "finally" ELSE "exited"
    /\ page' = NoPage /\ fault' = "none" /\ flight_data' = None
    /\ last_url' = Home /\ elapsed' = 0
    /\ UNCHANGED <<mode, test_mode, manual_login, driver, quits, location,
                   current_search, results, createdBy, unsaved,
                   lastOutcome, stale,
                   carried>>

\* the positions of each main that lie inside its try statement
InTry ==
    IF mode = "batch" THEN {"open_file", "scrape", "write", "close"}
    ELSE {"home_get", "WAITING_FOR_LOGIN", "WAITING_FOR_SEARCH",
          "RESULTS_DETECTED", "TIMED_OUT"}

\* the positions at which csvfile is open (inside the with statement)
FileOpen == mode = "batch" /\ pc \in {"scrape", "write", "close"}

Running ==
    {"setup", "login_get", "login_input", "open_file", "scrape", "write",
     "close", "home_get", "WAITING_FOR_LOGIN", "WAITING_FOR_SEARCH",
     "RESULTS_DETECTED", "TIMED_OUT"}

\* leaving the with statement closes csvfile, which flushes it
CloseFile ==
    /\ disk' = IF FileOpen THEN [disk EXCEPT !.lines = @ \o buf] ELSE disk
    /\ buf' = <<>>

\* setup_driver() raises: no session was opened
SetupFails ==
    /\ pc = "setup"
    /\ Leave("fault", FALSE)
    /\ UNCHANGED <<disk, buf>>

\* Ctrl+C
Interrupt ==
    /\ pc \in Running
    /\ Leave("interrupt", pc \in InTry)
    /\ CloseFile

\* a call of main outside the extraction raises: driver.get, input, or
\* driver.current_url in a pass of the polling loop
Fault ==
    /\ pc \in {"login_get", "login_input", "home_get", "WAITING_FOR_LOGIN",
               "WAITING_FOR_SEARCH"}
    /\ pc = "WAITING_FOR_SEARCH" => WaitStep(location, elapsed) # "False"
    /\ Leave("fault", pc \in InTry)
    /\ UNCHANGED <<disk, buf>>

\* the process is killed or the machine stops: nothing is flushed or quit
Crash ==
    /\ pc \in Running \ {"setup"}
    /\ Leave("crash", FALSE)
    /\ buf' = <<>>
    /\ UNCHANGED disk

\* finally: driver.quit()
Finally ==
    /\ pc = "finally"
    /\ driver' = "quit"
    /\ quits' = quits + 1
    /\ pc' = "exited"
    /\ UNCHANGED <<mode, test_mode, manual_login, exitCause, exitFrom,
                   location, last_url, elapsed, disk, buf, current_search,
                   page, fault, flight_data, results, createdBy,
                   unsaved, lastOutcome, stale,
                   carried>>

\* history of an attempt that returned fd
Attempted(fd) ==
    IF fd # None
    THEN /\ results' = Append(results, fd)
         /\ lastOutcome' = "row"
         /\ UNCHANGED unsaved
    ELSE /\ unsaved' = unsaved + 1
         /\ lastOutcome' = "null"
         /\ UNCHANGED results

---------------------------------------------------------------------------
(* Batch mode: scrape_united.main *)

\* driver.get("https://www.united.com"); time.sleep(3)
LoginGet ==
    /\ mode = "batch" /\ pc = "login_get"
    /\ location' = Home
    /\ pc' = "login_input"
    /\ UNCHANGED <<mode, test_mode, manual_login, driver, quits, exitCause,
                   exitFrom, last_url, elapsed, disk, buf, current_search,
                   page, fault, flight_data, results, createdBy,
                   unsaved, lastOutcome, stale,
                   carried>>

\* input("Press ENTER after you've logged in...") returns
LoginInput ==
    /\ mode = "batch" /\ pc = "login_input"
    /\ pc' = "open_file"
    /\ UNCHANGED <<mode, test_mode, manual_login, driver, quits, exitCause,
                   exitFrom, location, last_url, elapsed, disk, buf,
                   current_search, page, fault, flight_data, results,
                   createdBy, unsaved, lastOutcome, stale,
                   carried>>

\* open(output_file, 'w') truncates the store; writeheader() writes to the
\* file object, which nothing flushes yet
OpenFile ==
    /\ mode = "batch" /\ pc = "open_file"
    /\ disk' = [exists |-> TRUE, lines |-> <<>>]
    /\ buf' = <<HeaderLine>>
    /\ current_search' = 0
    /\ results' = <<>>
    /\ createdBy' = "batch"
    /\ unsaved' = 0
    /\ carried' = 0
    /\ pc' = IF total_searches(test_mode) > 0 THEN "scrape" ELSE "close"
    /\ UNCHANGED <<mode, test_mode, manual_login, driver, quits, exitCause,
                   exitFrom, location, last_url, elapsed, page, fault,
                   flight_data, lastOutcome, stale>>

\* current_search += 1; flight_data = scrape_united_awards(...)
BatchScrape ==
    /\ mode = "batch" /\ pc = "scrape"
    /\ \E p \in SitePages, f \in Faults :
        LET q == Query(test_mode, current_search + 1)
        IN /\ page' = p
           /\ fault' = f
           /\ flight_data' = scrape_united_awards(q.route[1], q.route[2],
                                                  q.date, p, f)
    /\ current_search' = current_search + 1
    /\ pc' = "write"
    /\ UNCHANGED <<mode, test_mode, manual_login, driver, quits, exitCause,
                   exitFrom, location, last_url, elapsed, disk, buf, results, createdBy, unsaved, lastOutcome, stale,
                   carried>>

\* writer.writerow(flight_data); csvfile.flush(); time.sleep(wait_time)
BatchWrite ==
    /\ mode = "batch" /\ pc = "write"
    /\ IF ShouldSave(flight_data)
       THEN /\ disk' = [disk EXCEPT
                          !.lines = @ \o buf \o <<RowLine(flight_data)>>]
            /\ buf' = <<>>
       ELSE UNCHANGED <<disk, buf>>
    /\ Attempted(flight_data)
    /\ page' = NoPage /\ fault' = "none"
    /\ pc' = IF current_search < total_searches(test_mode)
             THEN "scrape" ELSE "close"
    /\ UNCHANGED <<mode, test_mode, manual_login, driver, quits, exitCause,
                   exitFrom, location, last_url, elapsed, current_search,
                   flight_data, createdBy, stale,
                   carried>>

\* the loops are over: the with statement closes csvfile
BatchClose ==
    /\ mode = "batch" /\ pc = "close"
    /\ Leave("normal", TRUE)
    /\ CloseFile

---------------------------------------------------------------------------
(* Interactive mode: auto_scraper.main *)

\* driver.get("https://www.united.com")
HomeGet ==
    /\ mode = "interactive" /\ pc = "home_get"
    /\ location' = Home
    /\ pc' = "WAITING_FOR_LOGIN"
    /\ UNCHANGED <<mode, test_mode, manual_login, driver, quits, exitCause,
                   exitFrom, last_url, elapsed, disk, buf, current_search,
                   page, fault, flight_data, results, createdBy,
                   unsaved, lastOutcome, stale,
                   carried>>

\* the human drives the browser to another location while the script waits
Navigate ==
    /\ mode = "interactive" /\ driver = "open"
    /\ pc \in {"WAITING_FOR_LOGIN", "WAITING_FOR_SEARCH", "TIMED_OUT"}
    /\ \E u \in Urls \ {location} : location' = u
    /\ stale' = FALSE
    /\ UNCHANGED <<mode, test_mode, manual_login, pc, driver, quits,
                   exitCause, exitFrom, last_url, elapsed, disk, buf,
                   current_search, page, fault, flight_data, results,
                   createdBy, unsaved, lastOutcome,
                   carried>>

\* main calls wait_for_search_results: start_time and last_url are set
EnterWait(from) ==
    /\ pc = from
    /\ pc' = "WAITING_FOR_SEARCH"
    /\ elapsed' = 0
    /\ last_url' = location

\* input("Press ENTER after you've logged in...") returns
LoginDone ==
    /\ mode = "interactive"
    /\ EnterWait("WAITING_FOR_LOGIN")
    /\ UNCHANGED <<mode, test_mode, manual_login, driver, quits, exitCause,
                   exitFrom, location, disk, buf, current_search, page,
                   fault, flight_data, results, createdBy, unsaved,
                   lastOutcome, stale,
                   carried>>

\* a pass of the polling loop that sees no results page: time.sleep(1)
PollSleep ==
    /\ mode = "interactive" /\ pc = "WAITING_FOR_SEARCH"
    /\ WaitStep(location, elapsed) = "sleep"
    /\ last_url' = IF location # last_url THEN location ELSE last_url
    /\ elapsed' = elapsed + 1
    /\ UNCHANGED <<mode, test_mode, manual_login, pc, driver, quits,
                   exitCause, exitFrom, location, disk, buf, current_search,
                   page, fault, flight_data, results, createdBy,
                   unsaved, lastOutcome, stale,
                   carried>>

\* a pass that sees the results page: time.sleep(5); return True
PollDetect ==
    /\ mode = "interactive" /\ pc = "WAITING_FOR_SEARCH"
    /\ WaitStep(location, elapsed) = "True"
    /\ Len(disk.lines) < MaxLines
    /\ pc' = "RESULTS_DETECTED"
    /\ UNCHANGED <<mode, test_mode, manual_login, driver, quits, exitCause,
                   exitFrom, location, last_url, elapsed, disk, buf,
                   current_search, page, fault, flight_data, results,
                   createdBy, unsaved, lastOutcome, stale,
                   carried>>

\* the loop condition fails: return False
PollTimesOut ==
    /\ mode = "interactive" /\ pc = "WAITING_FOR_SEARCH"
    /\ WaitStep(location, elapsed) = "False"
    /\ unsaved < MaxUnsaved
    /\ pc' = "TIMED_OUT"
    /\ unsaved' = unsaved + 1
    /\ lastOutcome' = "timeout"
    /\ UNCHANGED <<mode, test_mode, manual_login, driver, quits, exitCause,
                   exitFrom, location, last_url, elapsed, disk, buf,
                   current_search, page, fault, flight_data, results,
                   createdBy, stale,
                   carried>>

\* main prints the timeout and goes round its while True loop
AfterTimeout ==
    /\ mode = "interactive" /\ pc = "TIMED_OUT"
    /\ IF OnTimeout = "WAITING_FOR_SEARCH"
       THEN /\ EnterWait("TIMED_OUT")
            /\ UNCHANGED <<exitCause, exitFrom>>
       ELSE /\ pc' = OnTimeout
            /\ exitCause' = "normal" /\ exitFrom' = pc
            /\ UNCHANGED <<elapsed, last_url>>
    /\ UNCHANGED <<mode, test_mode, manual_login, driver, quits, location,
                   disk, buf, current_search, page, fault, flight_data,
                   results, createdBy, unsaved, lastOutcome, stale,
                   carried>>

\* flight_data = extract_flight_data(driver); if flight_data:
\* save_to_csv(flight_data); then round the loop
Extract ==
    /\ mode = "interactive" /\ pc = "RESULTS_DETECTED"
    /\ \E p \in SitePages, f \in Faults :
        LET fd == extract_flight_data(location, p, f)
        IN /\ flight_data' = fd
           /\ fd = None => unsaved < MaxUnsaved
           /\ IF ShouldSave(fd)
              THEN /\ disk' = save_to_csv(disk, fd)
                   /\ createdBy' = IF disk.exists THEN createdBy
                                   ELSE "save_to_csv"
              ELSE UNCHANGED <<disk, createdBy>>
           /\ Attempted(fd)
    /\ stale' = TRUE
    /\ EnterWait("RESULTS_DETECTED")
    /\ UNCHANGED <<mode, test_mode, manual_login, driver, quits, exitCause,
                   exitFrom, location, buf, current_search, page, fault,
                   carried>>

Next ==
    \/ StartRun \/ SetupDriver \/ SetupFails
    \/ Interrupt \/ Fault \/ Crash \/ Finally
    \/ LoginGet \/ LoginInput \/ OpenFile
    \/ BatchScrape \/ BatchWrite \/ BatchClose
    \/ HomeGet \/ Navigate \/ LoginDone
    \/ PollSleep \/ PollDetect \/ PollTimesOut \/ AfterTimeout
    \/ Extract

Spec == Init /\ [][Next]_vars

---------------------------------------------------------------------------
(* Properties of the runs *)

IsRow(l) == l # HeaderLine
DataRows(lines) == SelectSeq(lines, IsRow)
RowsOf(rs) == [i \in 1..Len(rs) |-> RowLine(rs[i])]

\* the run has ended on one of the exit paths of main (not a kill)
Ended == pc = "exited" /\ exitCause \in {"normal", "fault", "interrupt"}

\* C1: in both modes, once the session is open, driver.quit() has been
\* called exactly once when the run has ended, whether normally, by a
\* fault or by an interrupt arriving anywhere after the open.
C1_TeardownOnEveryExit ==
    (Ended /\ driver # "none") => (quits = 1 /\ driver = "quit")

\* a driver call of the current batch query raised
Raised == mode = "batch" /\ pc = "write" /\ Raises(page, fault)

C4_HeaderOnceThenRows ==
    createdBy = "save_to_csv"
        => disk.lines = <<HeaderLine>> \o RowsOf(results)

C4_Witness ==
    /\ createdBy = "save_to_csv" /\ carried = 2 /\ lastOutcome = "row"
    /\ Len(disk.lines) = 3

\* the batch run has opened the store
Opened(at) == at \in {"scrape", "write", "close"}
BatchStarted ==
    /\ mode = "batch"
    /\ Opened(pc) \/ (pc \in {"finally", "exited"} /\ Opened(exitFrom))

\* queries whose loop iteration is over
Completed ==
    IF pc = "write" \/ (pc \in {"finally", "exited"} /\ exitFrom = "write")
    THEN current_search - 1 ELSE current_search

\* the nested order, stated on indices: pairs of distinct airports by
\* origin then destination, each with its dates in chronological order
NumAirports == Len(AIRPORTS)
NumDates == IF test_mode THEN 2 ELSE FullDays
Pairs ==
    {pr \in (1..NumAirports) \X (1..NumAirports) : pr[1] # pr[2]}
Before(a, b) == a[1] < b[1] \/ (a[1] = b[1] /\ a[2] < b[2])
Rank(pr, day) ==
    Cardinality({o \in Pairs : Before(o, pr)}) * NumDates + day + 1
NumQueries ==
    IF test_mode THEN NumDates
    ELSE NumAirports * (NumAirports - 1) * NumDates
ExpectedRow(l, k) ==
    \E pr \in Pairs, day \in 0..(NumDates - 1) :
        /\ Rank(pr, day) = k
        /\ l.row[1] = AIRPORTS[pr[1]]
        /\ l.row[2] = AIRPORTS[pr[2]]
        /\ l.row[3] = [ymd |-> day]

InOrder(lines) ==
    \A k \in 1..Len(lines) : IsRow(lines[k]) /\ ExpectedRow(lines[k], k)

\* C5: at every point of a batch run the flushed store is the header
\* followed by the rows of the first k queries of the nested order, k being
\* the number of queries completed, and a run that completes has made
\* every query of the cross product once.
C5_FlushedPrefix ==
    BatchStarted =>
        /\ disk.lines # <<>>
        /\ disk.lines[1] = HeaderLine
        /\ Len(disk.lines) = 1 + Completed
        /\ InOrder(Tail(disk.lines))
        /\ (pc = "exited" /\ exitCause = "normal")
                => Completed = NumQueries

\* what does hold at every point of a batch run: the rows on disk are those
\* of the first k queries in order, and the header is on disk from the
\* first flush on
C5_RowsPrefix ==
    BatchStarted =>
        /\ Len(DataRows(disk.lines)) = Completed
        /\ InOrder(DataRows(disk.lines))
        /\ Completed > 0 => disk.lines[1] = HeaderLine
        /\ (pc = "exited" /\ exitCause = "normal")
                => Completed = NumQueries

\* C9: a polling loop that reaches its bound returns without raising; main
\* then re-enters the wait with the session open; the timeout neither ends
\* the run nor quits the driver.
C9_TimeoutReenters ==
    [][/\ (pc = "WAITING_FOR_SEARCH" /\ ~(elapsed < PollTimeout)
             /\ pc' # pc)
            => (pc' = "TIMED_OUT" \/ exitCause' \in {"interrupt", "crash"})
       /\ (pc # "TIMED_OUT" /\ pc' = "TIMED_OUT")
            => (driver' = "open" /\ quits' = 0 /\ exitCause' = "none"
                /\ disk' = disk)
       /\ (pc = "TIMED_OUT" /\ pc' # pc)
            => \/ /\ pc' = "WAITING_FOR_SEARCH" /\ elapsed' = 0
                  /\ driver' = "open" /\ quits' = 0
                  /\ exitCause' = "none"
               \/ exitCause' \in {"interrupt", "crash"}]_vars

C9_Witness ==
    /\ pc = "WAITING_FOR_SEARCH" /\ lastOutcome = "timeout"
    /\ driver = "open" /\ quits = 0 /\ elapsed = 0

\* C10: after a results page was extracted, results are not detected again
\* until the location has changed.
C10_OneRecordPerArrival == ~(pc = "RESULTS_DETECTED" /\ stale)

===========================================================================
